---------------------------- MODULE Spec2Model ----------------------------
(***************************************************************************)
(* A model of the knowledge resolution pipeline of Aarya AI:               *)
(*   services/botBrain  (normalize, calculateScore, findBestResponse),     *)
(*   services/gemini    (getGeminiResponse, detectEmotion),                *)
(*   App                (handleUserMessage, handleEmotionAnalysis,         *)
(*                       processEmotionAndText).                           *)
(*                                                                         *)
(* Text that is matched (utterances, keywords) is a sequence of            *)
(* characters, each character a one-element string such as "a"; the named  *)
(* characters "TAB", "I_dot" (U+0130) and "comb_dot" (U+0307) stand for    *)
(* the characters of those names.  Text that is shown (replies, responses, *)
(* message texts) is a sequence of tokens: a control tag such as "[SAD]",  *)
(* the blank " ", or a word.                                               *)
(***************************************************************************)
EXTENDS Integers, Sequences, FiniteSets, TLC

VARIABLES
    nText, nOut, nTwice, nPc,               \* normalize, applied once and twice
    mQuery, mKB, mResult, mPc,              \* findBestResponse, applied to (mQuery, mKB)
    sInput, sKeywords, sScore, sPc,         \* calculateScore, applied to (sInput, sKeywords)
    pText, pOut, pPc,                       \* processEmotionAndText, applied to pText
    knowledgeBase, messages, isTyping,      \* App state (useState)
    calls,                                  \* the handler invocations in flight
    ai, envKey,                             \* services/gemini module state, environment
    storage, mockDbListener, subs, clock,   \* services/firebase in mock mode, Date.now()
    user, isGuest, isAdmin, activeTab,      \* App state (useState): auth and navigation
    storedUser, roleKey,                    \* localStorage: the mock user, the saved role
    loginInFlight, mounted,                 \* LoginPage's submit in flight; the mount effect ran
    userProfile                             \* App state (useState): the display name

normVars  == <<nText, nOut, nTwice, nPc>>
matchVars == <<mQuery, mKB, mResult, mPc>>
scoreVars == <<sInput, sKeywords, sScore, sPc>>
parseVars == <<pText, pOut, pPc>>
appVars   == <<knowledgeBase, messages, isTyping, calls, ai, envKey>>
storeVars == <<storage, mockDbListener, subs, clock>>
authVars  == <<user, isGuest, isAdmin, activeTab, storedUser, roleKey, loginInFlight, mounted,
               userProfile>>
vars      == <<normVars, matchVars, scoreVars, parseVars, appVars, storeVars, authVars>>

\* null, and a result not yet computed: a value that is no text (no text of the
\* model holds the token NULL)
Null == <<"NULL">>

---------------------------------------------------------------------------
(* Bounds *)

MaxLen == 4         \* longest input of normalize
MaxQueryLen == 3    \* longest query of findBestResponse
MaxEntries == 2     \* longest knowledge base of findBestResponse
MaxCalls == 1       \* handler invocations (utterances and image analyses) per run
MaxKeywords == 2    \* longest keyword list of calculateScore
MaxTokens == 3      \* longest reply of processEmotionAndText, in tokens
MaxSubs == 2        \* calls of subscribeToKnowledgeBase
MaxStored == 3      \* entries the mock store holds at most
MaxClock == 1       \* milliseconds that pass
MaxInFlight == 2    \* handler invocations that overlap

---------------------------------------------------------------------------
(* Characters *)

LowerLetters ==
    {"a","b","c","d","e","f","g","h","i","j","k","l","m",
     "n","o","p","q","r","s","t","u","v","w","x","y","z"}
UpperLetters == {"A","B","H","I"}
Digits       == {"0","7"}
\* \w of a JavaScript regular expression without the u flag: [A-Za-z0-9_]
WordChars    == LowerLetters \cup UpperLetters \cup Digits \cup {"_"}
\* \s: white space
SpaceChars   == {" ", "TAB"}

\* String.prototype.toLowerCase, one character at a time; U+0130 lowers to
\* the two characters "i", U+0307
LowerOf(c) ==
    CASE c = "A" -> <<"a">>
      [] c = "B" -> <<"b">>
      [] c = "H" -> <<"h">>
      [] c = "I" -> <<"i">>
      [] c = "I_dot" -> <<"i", "comb_dot">>
      [] OTHER -> <<c>>

\* the lowered characters of s joined, left half then right half
RECURSIVE toLowerCase(_)
toLowerCase(s) ==
    IF s = <<>> THEN <<>>
    ELSE IF Len(s) = 1 THEN LowerOf(s[1])
    ELSE LET half == Len(s) \div 2
         IN  toLowerCase(SubSeq(s, 1, half)) \o toLowerCase(SubSeq(s, half + 1, Len(s)))

\* .replace(/[^\w\s]/g, ' ')
ReplacePunct(s) ==
    [i \in 1..Len(s) |->
        IF s[i] \in WordChars \cup SpaceChars THEN s[i] ELSE " "]

\* the positions 1..Len(s), in order
Positions(s) == [i \in 1..Len(s) |-> i]

\* s from its first character that is not white space
DropSpaces(s) ==
    LET kept == SelectSeq(Positions(s), LAMBDA i : s[i] \notin SpaceChars)
    IN  IF kept = <<>> THEN <<>> ELSE SubSeq(s, kept[1], Len(s))

\* .replace(/\s+/g, ' '): every run of white space becomes one blank
CollapseSpaces(s) ==
    LET kept == SelectSeq(Positions(s),
                          LAMBDA i : \/ s[i] \notin SpaceChars
                                     \/ i = 1
                                     \/ s[i - 1] \notin SpaceChars)
    IN  [j \in 1..Len(kept) |->
            IF s[kept[j]] \in SpaceChars THEN " " ELSE s[kept[j]]]

Reverse(s) == [i \in 1..Len(s) |-> s[Len(s) + 1 - i]]

\* String.prototype.trim
trim(s) == Reverse(DropSpaces(Reverse(DropSpaces(s))))

normalize_NoCollapse(text) == trim(ReplacePunct(toLowerCase(text)))

normalize_TrimFirst(text) == CollapseSpaces(ReplacePunct(trim(toLowerCase(text))))

normalize(text) == trim(CollapseSpaces(ReplacePunct(toLowerCase(text))))

---------------------------------------------------------------------------
(* normalize applied to every bounded input, once and then to its own result *)

NormChars == {"a", "B", "7", "_", " ", "TAB", "!", "I_dot"}

RECURSIVE StringsUpTo(_, _)
StringsUpTo(chars, n) ==
    IF n = 0 THEN {<<>>}
    ELSE LET shorter == StringsUpTo(chars, n - 1)
         IN  shorter \cup {Append(s, c) : s \in shorter, c \in chars}

NormIdle ==
    /\ nText = <<>>
    /\ nOut = Null
    /\ nTwice = Null
    /\ nPc = "start"

NormalizeOnce ==
    /\ nPc = "start"
    /\ nOut' = normalize(nText)
    /\ nPc' = "once"
    /\ UNCHANGED <<nText, nTwice, matchVars, scoreVars, parseVars, appVars, storeVars, authVars>>

NormalizeTwice ==
    /\ nPc = "once"
    /\ nTwice' = normalize(nOut)
    /\ nPc' = "twice"
    /\ UNCHANGED <<nText, nOut, matchVars, scoreVars, parseVars, appVars, storeVars, authVars>>

---------------------------------------------------------------------------
(* services/botBrain: calculateScore and findBestResponse *)

\* !s of a string s: only the empty string is falsy
Falsy_OnlyNull(s) == s = Null

Falsy(s) == s = <<>>

\* if (v) of a value v: string | null
Truthy(v) == v # Null /\ v # <<>>

ExactScore    == 100
BoundaryBonus == 20
PhraseBonus   == 10
TokenBonus    == 5

Max(a, b) == IF a > b THEN a ELSE b

SubstringAt(s, i, t) ==
    /\ i >= 1
    /\ i + Len(t) - 1 <= Len(s)
    /\ \A j \in 1..Len(t) : s[i + j - 1] = t[j]

\* String.prototype.includes
includes(s, t) == \E i \in 1..(Len(s) + 1) : SubstringAt(s, i, t)

IsWordAt(s, j) == j >= 1 /\ j <= Len(s) /\ s[j] \in WordChars

\* \b between the characters p and p + 1 of s (p = 0: at the start)
WordBoundary(s, p) == IsWordAt(s, p) # IsWordAt(s, p + 1)

\* new RegExp(`\\b${kw}\\b`, 'i').test(s), for kw of [a-z0-9_ ] only (no
\* metacharacter, and the i flag changes nothing on lowercased text)
RegexWordTest(kw, s) ==
    \E i \in 1..(Len(s) + 1) :
        /\ SubstringAt(s, i, kw)
        /\ WordBoundary(s, i - 1)
        /\ WordBoundary(s, i + Len(kw) - 1)

\* String.prototype.split(' '): the pieces between blanks, empty ones kept
split(s) ==
    LET blanks == SelectSeq(Positions(s), LAMBDA i : s[i] = " ")
        cuts   == <<0>> \o blanks \o <<Len(s) + 1>>
    IN  [j \in 1..(Len(cuts) - 1) |-> SubSeq(s, cuts[j] + 1, cuts[j + 1] - 1)]

Range(f) == {f[i] : i \in DOMAIN f}

KeywordScore_PhraseFirst(normalizedInput, normKeyword) ==
    IF includes(normalizedInput, normKeyword)
    THEN PhraseBonus + Len(normKeyword)
    ELSE IF RegexWordTest(normKeyword, normalizedInput)
    THEN BoundaryBonus + Len(normKeyword)
    ELSE LET keywordTokens == split(normKeyword)
             inputTokens   == Range(split(normalizedInput))
         IN  IF /\ Len(keywordTokens) > 1
                /\ \A t \in Range(keywordTokens) : t \in inputTokens
             THEN TokenBonus + Len(normKeyword)
             ELSE 0

KeywordScore_NoPhrase(normalizedInput, normKeyword) ==
    IF RegexWordTest(normKeyword, normalizedInput)
    THEN BoundaryBonus + Len(normKeyword)
    ELSE LET keywordTokens == split(normKeyword)
             inputTokens   == Range(split(normalizedInput))
         IN  IF /\ Len(keywordTokens) > 1
                /\ \A t \in Range(keywordTokens) : t \in inputTokens
             THEN TokenBonus + Len(normKeyword)
             ELSE 0

KeywordScore_NoTokens(normalizedInput, normKeyword) ==
    IF RegexWordTest(normKeyword, normalizedInput)
    THEN BoundaryBonus + Len(normKeyword)
    ELSE IF includes(normalizedInput, normKeyword)
    THEN PhraseBonus + Len(normKeyword)
    ELSE 0

\* the score one non-empty normalized keyword adds when it is not the whole input
KeywordScore(normalizedInput, normKeyword) ==
    IF RegexWordTest(normKeyword, normalizedInput)
    THEN BoundaryBonus + Len(normKeyword)
    ELSE IF includes(normalizedInput, normKeyword)
    THEN PhraseBonus + Len(normKeyword)
    ELSE LET keywordTokens == split(normKeyword)
             inputTokens   == Range(split(normalizedInput))
         IN  IF /\ Len(keywordTokens) > 1
                /\ \A t \in Range(keywordTokens) : t \in inputTokens
             THEN TokenBonus + Len(normKeyword)
             ELSE 0

RECURSIVE ScoreFrom_NoExact(_, _, _, _)
ScoreFrom_NoExact(normalizedInput, entryKeywords, k, maxScore) ==
    IF k > Len(entryKeywords) THEN maxScore
    ELSE LET normKeyword == normalize(entryKeywords[k])
         IN  IF Falsy(normKeyword)
             THEN ScoreFrom_NoExact(normalizedInput, entryKeywords, k + 1, maxScore)
             ELSE ScoreFrom_NoExact(normalizedInput, entryKeywords, k + 1,
                            Max(maxScore, KeywordScore(normalizedInput, normKeyword)))

RECURSIVE ScoreFrom_Sum(_, _, _, _)
ScoreFrom_Sum(normalizedInput, entryKeywords, k, maxScore) ==
    IF k > Len(entryKeywords) THEN maxScore
    ELSE LET normKeyword == normalize(entryKeywords[k])
         IN  IF Falsy(normKeyword)
             THEN ScoreFrom_Sum(normalizedInput, entryKeywords, k + 1, maxScore)
             ELSE IF normalizedInput = normKeyword
             THEN ExactScore
             ELSE ScoreFrom_Sum(normalizedInput, entryKeywords, k + 1,
                            maxScore + KeywordScore(normalizedInput, normKeyword))

RECURSIVE ScoreFrom_NoSkip(_, _, _, _)
ScoreFrom_NoSkip(normalizedInput, entryKeywords, k, maxScore) ==
    IF k > Len(entryKeywords) THEN maxScore
    ELSE LET normKeyword == normalize(entryKeywords[k])
         IN  IF normalizedInput = normKeyword
             THEN ExactScore
             ELSE ScoreFrom_NoSkip(normalizedInput, entryKeywords, k + 1,
                            Max(maxScore, KeywordScore(normalizedInput, normKeyword)))

\* the loop of calculateScore from keyword k on, maxScore so far
RECURSIVE ScoreFrom(_, _, _, _)
ScoreFrom(normalizedInput, entryKeywords, k, maxScore) ==
    IF k > Len(entryKeywords) THEN maxScore
    ELSE LET normKeyword == normalize(entryKeywords[k])
         IN  IF Falsy(normKeyword)
             THEN ScoreFrom(normalizedInput, entryKeywords, k + 1, maxScore)
             ELSE IF normalizedInput = normKeyword
             THEN ExactScore
             ELSE ScoreFrom(normalizedInput, entryKeywords, k + 1,
                            Max(maxScore, KeywordScore(normalizedInput, normKeyword)))

calculateScore(normalizedInput, entryKeywords) ==
    ScoreFrom(normalizedInput, entryKeywords, 1, 0)

RECURSIVE BestFrom_LastWins(_, _, _, _, _)
BestFrom_LastWins(normalizedInput, kb, e, bestScore, bestResponse) ==
    IF e > Len(kb) THEN <<bestScore, bestResponse>>
    ELSE LET score == calculateScore(normalizedInput, kb[e].keywords)
         IN  IF score >= bestScore
             THEN BestFrom_LastWins(normalizedInput, kb, e + 1, score, kb[e].response)
             ELSE BestFrom_LastWins(normalizedInput, kb, e + 1, bestScore, bestResponse)

\* the loop of findBestResponse from entry e on: <<bestScore, bestResponse>>
RECURSIVE BestFrom(_, _, _, _, _)
BestFrom(normalizedInput, kb, e, bestScore, bestResponse) ==
    IF e > Len(kb) THEN <<bestScore, bestResponse>>
    ELSE LET score == calculateScore(normalizedInput, kb[e].keywords)
         IN  IF score > bestScore
             THEN BestFrom(normalizedInput, kb, e + 1, score, kb[e].response)
             ELSE BestFrom(normalizedInput, kb, e + 1, bestScore, bestResponse)

findBestResponse(userInput, kb) ==
    LET normalizedInput == normalize(userInput)
    IN  IF Falsy(normalizedInput) THEN Null
        ELSE LET best == BestFrom(normalizedInput, kb, 1, 0, Null)
             IN  IF best[1] > 0 THEN best[2] ELSE Null

---------------------------------------------------------------------------
(* findBestResponse applied to every bounded query and knowledge base *)

MatchChars == {"h", "i", " ", "!"}

Entry(id, topic, keywords, response) ==
    [id |-> id, topic |-> topic, keywords |-> keywords, response |-> response,
     matchCount |-> 0]

EntryPool ==
    { Entry("1", "Welcome", << <<"h","i">>, <<"i"," ","h">> >>, <<"Hello!">>),
      Entry("2", "Bang",    << <<"!">> >>,                      <<"Bang">>),
      Entry("3", "Silent",  << <<"H">>, <<"!","!">> >>,         <<>>),
      Entry("4", "None",    << >>,                              <<"Never">>),
      Entry("5", "Again",   << <<"H","i">> >>,                  <<"Hi">>) }

RECURSIVE SeqsUpTo(_, _)
SeqsUpTo(S, n) ==
    IF n = 0 THEN {<<>>}
    ELSE LET shorter == SeqsUpTo(S, n - 1)
         IN  shorter \cup {Append(s, x) : s \in shorter, x \in S}

MatchIdle ==
    /\ mQuery = <<>>
    /\ mKB = <<>>
    /\ mResult = Null
    /\ mPc = "start"

FindBest_CountsMatch ==
    /\ mPc = "start"
    /\ mResult' = findBestResponse(mQuery, mKB)
    /\ mPc' = "done"
    /\ mKB' = [e \in 1..Len(mKB) |->
                  IF mKB[e].response = findBestResponse(mQuery, mKB)
                  THEN [mKB[e] EXCEPT !.matchCount = @ + 1]
                  ELSE mKB[e]]
    /\ UNCHANGED <<mQuery, normVars, scoreVars, parseVars, appVars, storeVars, authVars>>

\* findBestResponse reads entry.keywords and entry.response and assigns to
\* its own locals only
FindBest ==
    /\ mPc = "start"
    /\ mResult' = findBestResponse(mQuery, mKB)
    /\ mPc' = "done"
    /\ UNCHANGED <<mQuery, mKB, normVars, scoreVars, parseVars, appVars, storeVars, authVars>>

\* a second call with the same arguments
FindBestAgain ==
    /\ mPc = "done"
    /\ mResult' = findBestResponse(mQuery, mKB)
    /\ mPc' = "again"
    /\ UNCHANGED <<mQuery, mKB, normVars, scoreVars, parseVars, appVars, storeVars, authVars>>

---------------------------------------------------------------------------
(* calculateScore applied to every bounded normalized input and keyword list *)

\* the inputs and the keyword of the worked examples of the scoring tiers
HiThere            == <<"h","i"," ","t","h","e","r","e">>
HikeUpTheHill      == <<"h","i","k","e"," ","u","p"," ","t","h","e"," ","h","i","l","l">>
SubscriptionPrice  == <<"w","h","a","t"," ","i","s"," ","t","h","e"," ","s","u","b","s","c","r","i","p","t","i","o","n"," ","p","r","i","c","e">>
PriceSubscription  == <<"p","r","i","c","e"," ","s","u","b","s","c","r","i","p","t","i","o","n">>

\* a word of 81 letters, and an input that holds it as a word
LongWord  == [i \in 1..81 |-> "a"]
LongInput == LongWord \o <<" ", "h", "i">>

\* calculateScore is private to services/botBrain: its only caller,
\* findBestResponse, hands it a normalized input that is not empty
ScoreInputs ==
    ({normalize(q) : q \in StringsUpTo(MatchChars, MaxQueryLen)} \ {<<>>})
        \cup {HiThere, HikeUpTheHill, SubscriptionPrice, LongInput}

\* keywords as they are stored: not normalized
KeywordPool ==
    { <<"h","i">>, <<"H">>, <<"i"," ","h">>, <<"!">>, <<"H","i","!">>, PriceSubscription,
      LongWord, LongInput }

ScoreIdle ==
    /\ sInput = <<>>
    /\ sKeywords = <<>>
    /\ sScore = -1
    /\ sPc = "start"

CalculateScore ==
    /\ sPc = "start"
    /\ sScore' = calculateScore(sInput, sKeywords)
    /\ sPc' = "done"
    /\ UNCHANGED <<sInput, sKeywords, normVars, matchVars, parseVars, appVars, storeVars, authVars>>

---------------------------------------------------------------------------
(* services/gemini and the App's handlers *)

Client == <<"GoogleGenAI">>

\* the fixed replies of getGeminiResponse and detectEmotion, the texts of
\* DEFAULT_RESPONSES and the fixed texts of handleEmotionAnalysis
UnconfiguredReply  == <<"[SAD]", " ", "gemini-not-configured">>
CloudTroubleReply  == <<"[SAD]", " ", "trouble-connecting">>
NoResponseReply    == <<"[NEUTRAL]", " ", "trouble-thinking">>
NeedKeyReply       == <<"[SAD]", " ", "need-api-key">>
VisionTroubleReply == <<"[SAD]", " ", "trouble-processing-image">>
NoExpressionReply  == <<"[NEUTRAL]", " ", "could-not-read-expression">>
DEFAULT_RESPONSES  ==
    { <<"not-sure-i-understand">>, <<"outside-my-knowledge">>,
      <<"no-record-for-that">>, <<"no-match-for-that-query">> }
ScanningText       == <<"scanning-my-facial-expression">>
ImageErrorText     == <<"could-not-process-image">>

\* initializeGeminiClient(apiKey): the module's client afterwards; the
\* constructor of the SDK either returns a client or throws
initializeGeminiClient(client, apiKey, ctorOk) ==
    IF apiKey = "" THEN client
    ELSE IF ctorOk THEN Client ELSE Null

\* if (!ai) { const lateKey = getEnvKey(); if (lateKey) initializeGeminiClient(lateKey); }
LateInit(client, env, ctorOk) ==
    IF client = Null /\ env # ""
    THEN initializeGeminiClient(client, env, ctorOk)
    ELSE client

\* String.prototype.replace(tag, ''): the first occurrence removed
RECURSIVE RemoveFirst(_, _)
RemoveFirst(s, tag) ==
    IF s = <<>> THEN <<>>
    ELSE IF Head(s) = tag THEN Tail(s)
         ELSE <<Head(s)>> \o RemoveFirst(Tail(s), tag)

HasTag(s, tag) == \E i \in 1..Len(s) : s[i] = tag

processEmotionAndText(fullText) ==
    LET cleanText ==
            IF HasTag(fullText, "[HAPPY]") THEN RemoveFirst(fullText, "[HAPPY]")
            ELSE IF HasTag(fullText, "[SAD]") THEN RemoveFirst(fullText, "[SAD]")
            ELSE IF HasTag(fullText, "[ANGRY]") THEN RemoveFirst(fullText, "[ANGRY]")
            ELSE IF HasTag(fullText, "[SURPRISED]") THEN RemoveFirst(fullText, "[SURPRISED]")
            ELSE IF HasTag(fullText, "[THINKING]") THEN RemoveFirst(fullText, "[THINKING]")
            ELSE IF HasTag(fullText, "[NEUTRAL]") THEN RemoveFirst(fullText, "[NEUTRAL]")
            ELSE fullText
    IN  trim(cleanText)

\* the tags the prompt of getGeminiResponse tells the service to start with
EmotionTags ==
    {"[NEUTRAL]", "[HAPPY]", "[SAD]", "[ANGRY]", "[SURPRISED]", "[THINKING]", "[CONCERNED]"}

\* processEmotionAndText applied to every bounded reply
ReplyTokens == EmotionTags \cup {" ", "hello"}

ParseIdle ==
    /\ pText = <<>>
    /\ pOut = Null
    /\ pPc = "start"

ProcessEmotionAndText ==
    /\ pPc = "start"
    /\ pOut' = processEmotionAndText(pText)
    /\ pPc' = "done"
    /\ UNCHANGED <<pText, normVars, matchVars, scoreVars, appVars, storeVars, authVars>>

CallIds == 1..MaxCalls

\* One invocation of handleUserMessage or handleEmotionAnalysis.
\*   pc       idle, timer (the 600 ms timeout pending), awaiting (suspended at
\*            the await, the request in flight), done
\*   kb       the knowledgeBase the handler's closure holds
\*   settled  the promise of getGeminiResponse / detectEmotion: none, pending,
\*            resolved (with raw), rejected
\*   fallbackCalls, detectCalls, requests
\*            calls of getGeminiResponse, of detectEmotion, and requests made
\*            to the external service, by this invocation
\*   hadClient, outcome
\*            whether a client existed when the responder was called, and
\*            what the external service did: none, text, empty, failed
\*   threw    an exception escaped the handler
IdleCall ==
    [kind |-> "none", pc |-> "idle", text |-> <<>>, kb |-> <<>>,
     localMatch |-> Null, settled |-> "none", raw |-> Null,
     fallbackCalls |-> 0, detectCalls |-> 0, requests |-> 0,
     hadClient |-> FALSE, outcome |-> "none", threw |-> FALSE]

\* getGeminiResponse up to its await
getGeminiResponseBegin_NoCheck(call, client) ==
    [call EXCEPT !.requests = @ + 1, !.settled = "pending"]

getGeminiResponseBegin(call, client) ==
    IF client = Null
    THEN [call EXCEPT !.raw = UnconfiguredReply, !.settled = "resolved"]
    ELSE [call EXCEPT !.requests = @ + 1, !.settled = "pending"]

\* getGeminiResponse after the await: response.text || "[NEUTRAL] ..."
getGeminiResponseThen_NoDefault(call, text) ==
    [call EXCEPT !.raw = text, !.settled = "resolved"]

getGeminiResponseThen(call, text) ==
    [call EXCEPT !.raw = IF Truthy(text) THEN text ELSE NoResponseReply,
                 !.settled = "resolved"]

\* getGeminiResponse's catch
getGeminiResponseCatch_Rethrow(call) ==
    [call EXCEPT !.settled = "rejected"]

getGeminiResponseCatch_Retry(call) ==
    [call EXCEPT !.requests = @ + 1, !.settled = "pending"]

getGeminiResponseCatch(call) ==
    [call EXCEPT !.raw = CloudTroubleReply, !.settled = "resolved"]

\* detectEmotion, likewise
detectEmotionBegin(call, client) ==
    IF client = Null
    THEN [call EXCEPT !.raw = NeedKeyReply, !.settled = "resolved"]
    ELSE [call EXCEPT !.requests = @ + 1, !.settled = "pending"]

detectEmotionThen(call, text) ==
    [call EXCEPT !.raw = IF Truthy(text) THEN text ELSE NoExpressionReply,
                 !.settled = "resolved"]

detectEmotionCatch_Rethrow(call) ==
    [call EXCEPT !.settled = "rejected"]

detectEmotionCatch(call) ==
    [call EXCEPT !.raw = VisionTroubleReply, !.settled = "resolved"]

\* handleUserMessage up to the setTimeout or to the call of getGeminiResponse
handleUserMessageBegin_SkipBlank(call, text, kb) ==
    LET localMatch == findBestResponse(text, kb)
        started == [call EXCEPT !.kind = "text", !.text = text, !.kb = kb,
                                !.localMatch = localMatch]
    IN  IF Truthy(localMatch)
        THEN [started EXCEPT !.pc = "timer"]
        ELSE IF normalize(text) = <<>>
        THEN [started EXCEPT !.pc = "done"]
        ELSE [started EXCEPT !.pc = "fallback", !.fallbackCalls = @ + 1]

handleUserMessageBegin(call, text, kb) ==
    LET localMatch == findBestResponse(text, kb)
        started == [call EXCEPT !.kind = "text", !.text = text, !.kb = kb,
                                !.localMatch = localMatch]
    IN  IF Truthy(localMatch)
        THEN [started EXCEPT !.pc = "timer"]
        ELSE [started EXCEPT !.pc = "fallback", !.fallbackCalls = @ + 1]

\* handleEmotionAnalysis up to the call of detectEmotion
handleEmotionAnalysisBegin(call, kb) ==
    [call EXCEPT !.kind = "image", !.kb = kb, !.pc = "fallback",
                 !.detectCalls = @ + 1]

\* the text of the bot message the handler appends once the responder's
\* promise has settled (try / catch); d is what getRandomDefaultResponse draws
handlerBotText(call, d) ==
    IF call.settled = "resolved" THEN processEmotionAndText(call.raw)
    ELSE IF call.kind = "text" THEN d ELSE ImageErrorText

UserMsg(c, text) == [sender |-> "user", text |-> text, call |-> c]
BotMsg(c, text)  == [sender |-> "bot", text |-> text, call |-> c]

\* setMessages(prev => [...prev, botMsg]) of the handler's try or catch
handlerAppend_AlsoInFinally(msgs, c, call, d) ==
    Append(Append(msgs, BotMsg(c, handlerBotText(call, d))),
           BotMsg(c, handlerBotText(call, d)))

handlerAppend_Prepend(msgs, c, call, d) ==
    <<BotMsg(c, handlerBotText(call, d))>> \o msgs

handlerAppend(msgs, c, call, d) ==
    Append(msgs, BotMsg(c, handlerBotText(call, d)))

---------------------------------------------------------------------------
(* The App: utterances and image analyses, the external service, snapshots *)

\* "Hi there!", "h", "no", blank-only, punctuation-only and the empty utterance
Utterances ==
    { <<"H","i"," ","t","h","e","r","e","!">>, <<"h">>, <<"n","o">>, <<" ","TAB">>, <<"!">>, <<>> }

\* the knowledge bases the subscription delivers, each ordered by topic
Snapshots ==
    { <<>>,
      << Entry("1", "Welcome", << <<"h","e","l","l","o">>, <<"h","i">> >>,
               <<"Hello!", " ", "I", " ", "am", " ", "Aarya", " ", "AI.">>) >>,
      << Entry("3", "Silent",  << <<"H">>, <<"!","!">> >>, <<>>),
         Entry("1", "Welcome", << <<"h","i">>, <<"i"," ","h">> >>,
               <<"[HAPPY]", " ", "Hello!", " ">>) >> }

\* response.text of a successful call of the external service: missing,
\* empty, tagged, untagged
ServiceTexts ==
    { Null, <<>>, <<"[HAPPY]", " ", "namaste">>, <<"hello", " ", "[SAD]">> }

ApiKeys == {"", "key"}

NoCalls == [c \in CallIds |-> IdleCall]

AppIdle ==
    /\ knowledgeBase = <<>>
    /\ messages = <<>>
    /\ isTyping = FALSE
    /\ calls = NoCalls
    /\ ai = Null
    /\ envKey = ""

\* the module body of services/gemini, and the App before its first render
AppInit ==
    /\ knowledgeBase = <<>>
    /\ messages = <<>>
    /\ isTyping = FALSE
    /\ calls = NoCalls
    /\ envKey \in ApiKeys
    /\ \E ctorOk \in BOOLEAN : ai = initializeGeminiClient(Null, envKey, ctorOk)

\* the subscription's onData callback: setKnowledgeBase(data)
OnKnowledgeData(data) ==
    /\ knowledgeBase' = data
    /\ UNCHANGED <<messages, isTyping, calls, ai, envKey, normVars, matchVars, scoreVars, parseVars, storeVars, authVars>>

InitializeGeminiClient(apiKey, ctorOk) ==
    /\ ai' = initializeGeminiClient(ai, apiKey, ctorOk)
    /\ UNCHANGED <<knowledgeBase, messages, isTyping, calls, envKey, normVars, matchVars, scoreVars, parseVars, storeVars, authVars>>

IsNextCall(c) ==
    /\ calls[c].pc = "idle"
    /\ \A b \in DOMAIN calls : b < c => calls[b].pc # "idle"

\* Runs the handler of call c on from the responder's promise nc.settled:
\* still pending, the handler stays suspended at its await; settled, it
\* appends its bot message and its finally clause clears isTyping.
Continue(c, nc, msgs) ==
    IF nc.settled = "pending"
    THEN /\ calls' = [calls EXCEPT ![c] = [nc EXCEPT !.pc = "awaiting"]]
         /\ messages' = msgs
         /\ isTyping' = TRUE
    ELSE /\ calls' = [calls EXCEPT ![c] = [nc EXCEPT !.pc = "done"]]
         /\ \E d \in DEFAULT_RESPONSES :
                messages' = handlerAppend(msgs, c, nc, d)
         /\ isTyping' = FALSE

HandleUserMessage(c, text, ctorOk) ==
    /\ IsNextCall(c)
    /\ LET started == handleUserMessageBegin(calls[c], text, knowledgeBase)
           client  == LateInit(ai, envKey, ctorOk)
           msgs    == Append(messages, UserMsg(c, text))
       IN  IF started.pc = "fallback"
           THEN /\ ai' = client
                /\ Continue(c,
                       getGeminiResponseBegin(
                           [started EXCEPT !.hadClient = (client # Null)], client),
                       msgs)
           ELSE /\ calls' = [calls EXCEPT ![c] = started]
                /\ messages' = msgs
                /\ isTyping' = TRUE
                /\ UNCHANGED ai
    /\ UNCHANGED <<knowledgeBase, envKey, normVars, matchVars, scoreVars, parseVars, storeVars, authVars>>

\* the callback of setTimeout(..., 600)
TimerFire(c) ==
    /\ calls[c].pc = "timer"
    /\ calls' = [calls EXCEPT ![c].pc = "done"]
    /\ messages' = Append(messages, BotMsg(c, calls[c].localMatch))
    /\ isTyping' = FALSE
    /\ UNCHANGED <<knowledgeBase, ai, envKey, normVars, matchVars, scoreVars, parseVars, storeVars, authVars>>

HandleEmotionAnalysis(c, ctorOk) ==
    /\ IsNextCall(c)
    /\ LET started == handleEmotionAnalysisBegin(calls[c], knowledgeBase)
           client  == LateInit(ai, envKey, ctorOk)
       IN  /\ ai' = client
           /\ Continue(c,
                  detectEmotionBegin(
                      [started EXCEPT !.hadClient = (client # Null)], client),
                  Append(messages, UserMsg(c, ScanningText)))
    /\ UNCHANGED <<knowledgeBase, envKey, normVars, matchVars, scoreVars, parseVars, storeVars, authVars>>

\* ai.models.generateContent resolves with response.text = text
ServiceResolve(c, text) ==
    /\ calls[c].pc = "awaiting"
    /\ LET call == [calls[c] EXCEPT
                       !.outcome = IF Truthy(text) THEN "text" ELSE "empty"]
       IN  Continue(c,
                    IF call.kind = "text" THEN getGeminiResponseThen(call, text)
                                          ELSE detectEmotionThen(call, text),
                    messages)
    /\ UNCHANGED <<knowledgeBase, ai, envKey, normVars, matchVars, scoreVars, parseVars, storeVars, authVars>>

\* ai.models.generateContent rejects
ServiceReject(c) ==
    /\ calls[c].pc = "awaiting"
    /\ LET call == [calls[c] EXCEPT !.outcome = "failed"]
       IN  Continue(c,
                    IF call.kind = "text" THEN getGeminiResponseCatch(call)
                                          ELSE detectEmotionCatch(call),
                    messages)
    /\ UNCHANGED <<knowledgeBase, ai, envKey, normVars, matchVars, scoreVars, parseVars, storeVars, authVars>>

ServiceSettle(c) ==
    \/ \E text \in ServiceTexts : ServiceResolve(c, text)
    \/ ServiceReject(c)

---------------------------------------------------------------------------
(* services/firebase in mock mode: the knowledge store in localStorage *)

\* the topics of the model in the order of String.prototype.localeCompare
TopicOrder == <<"Alpha", "Capabilities", "Pricing", "Welcome">>

Rank(topic) == CHOOSE i \in 1..Len(TopicOrder) : TopicOrder[i] = topic

localeCompare(a, b) == Rank(a) - Rank(b)

\* one step of the sort: x put behind the last entry that does not come after it
RECURSIVE InsertByTopic(_, _)
InsertByTopic(sorted, x) ==
    IF sorted = <<>> THEN <<x>>
    ELSE IF localeCompare(sorted[Len(sorted)].topic, x.topic) <= 0
         THEN Append(sorted, x)
         ELSE Append(InsertByTopic(SubSeq(sorted, 1, Len(sorted) - 1), x),
                     sorted[Len(sorted)])

\* Array.prototype.sort((a, b) => a.topic.localeCompare(b.topic)), a stable sort
RECURSIVE sortByTopic(_)
sortByTopic(entries) ==
    IF entries = <<>> THEN <<>>
    ELSE InsertByTopic(sortByTopic(SubSeq(entries, 1, Len(entries) - 1)),
                       entries[Len(entries)])

DEFAULT_KNOWLEDGE ==
    << Entry("1", "Welcome", << <<"h","e","l","l","o">>, <<"h","i">> >>,
             <<"Hello!", " ", "I", " ", "am", " ", "Aarya", " ", "AI.">>),
       Entry("2", "Capabilities", << <<"h","e","l","p">> >>,
             <<"I", " ", "can", " ", "answer", " ", "questions.">>) >>

\* localStorage.getItem(STORAGE_KEY_DB): nothing, or <<the array stored>>
NothingStored == <<>>

\* getMockDB: the stored array, or DEFAULT_KNOWLEDGE, which it stores, when
\* nothing is stored; what it returns is also what the storage holds afterwards
getMockDB(stored) == IF stored = NothingStored THEN DEFAULT_KNOWLEDGE ELSE stored[1]

\* the data subscribeToKnowledgeBase hands to onData at once
initialFetch(stored) == sortByTopic(getMockDB(stored))

\* 'mock_' + Date.now()
mockId(now) == "mock_" \o ToString(now)

\* the array addKnowledgeEntry saves
addKnowledgeEntry(stored, entry, now) ==
    sortByTopic(Append(getMockDB(stored),
                       Entry(mockId(now), entry.topic, entry.keywords, entry.response)))

\* the array deleteKnowledgeEntry saves
deleteKnowledgeEntry(stored, id) ==
    SelectSeq(getMockDB(stored), LAMBDA e : e.id # id)

Subscriptions == 1..MaxSubs

\* One call of subscribeToKnowledgeBase.
\*   status  unused, active, unsubscribed (its unsubscribe function was called)
\*   called  how often the latest subscribe or save called its onData
\*   missed  a change was saved while it was active and its onData was not called
NoSubscription ==
    [status |-> "unused", called |-> 0, missed |-> FALSE]

\* saveMockDB's if (mockDbListener) mockDbListener(data), seen by each subscription
saveMockDB_Silent(listener, ss, data) ==
    [s \in DOMAIN ss |->
        IF ss[s].status = "active" THEN [ss[s] EXCEPT !.called = 0, !.missed = TRUE]
        ELSE [ss[s] EXCEPT !.called = 0]]

saveMockDB(listener, ss, data) ==
    [s \in DOMAIN ss |->
        IF s = listener THEN [ss[s] EXCEPT !.called = 1]
        ELSE IF ss[s].status = "active" THEN [ss[s] EXCEPT !.called = 0, !.missed = TRUE]
        ELSE [ss[s] EXCEPT !.called = 0]]

\* the knowledgeBase of the App after saveMockDB: onData, the callback of
\* handleFirebaseConnection, is setKnowledgeBase(data)
knowledgeAfterSave(listener, data, kb) ==
    IF listener # 0 THEN data ELSE kb

\* topic, keywords and response as TrainingPanel's handleAdd passes them
NewEntries ==
    { [topic |-> "Alpha",   keywords |-> << <<"a">> >>,     response |-> <<"Alpha!">>],
      [topic |-> "Welcome", keywords |-> << <<"h","e","y">> >>, response |-> <<"Hey!">>] }

\* the ids deleteKnowledgeEntry is called with: every stored one, and one that
\* is not stored
UnknownId == "nope"

StoreIdle ==
    /\ storage = NothingStored
    /\ mockDbListener = 0
    /\ subs = [s \in Subscriptions |-> NoSubscription]
    /\ clock = 0

\* subscribeToKnowledgeBase(onData, onError) in mock mode, as subscription s
Subscribe(s) ==
    /\ subs[s].status = "unused"
    /\ \A r \in 1..(s - 1) : subs[r].status # "unused"
    /\ mockDbListener' = s
    /\ storage' = <<getMockDB(storage)>>
    /\ subs' = [r \in DOMAIN subs |->
                  IF r = s
                  THEN [status |-> "active", called |-> 1, missed |-> FALSE]
                  ELSE [subs[r] EXCEPT !.called = 0]]
    /\ knowledgeBase' = initialFetch(storage)

SubscribeToKnowledgeBase(s) ==
    /\ Subscribe(s)
    /\ UNCHANGED <<clock, messages, isTyping, calls, ai, envKey,
                   normVars, matchVars, scoreVars, parseVars, authVars>>

\* the function subscribeToKnowledgeBase returned for subscription s
Unsubscribe(s) ==
    /\ subs[s].status # "unused"
    /\ mockDbListener' = 0
    /\ subs' = [subs EXCEPT ![s].status = "unsubscribed"]
    /\ UNCHANGED <<storage, clock, normVars, matchVars, scoreVars, parseVars, appVars, authVars>>

Save(data) ==
    /\ storage' = <<data>>
    /\ subs' = saveMockDB(mockDbListener, subs, data)
    /\ knowledgeBase' = knowledgeAfterSave(mockDbListener, data, knowledgeBase)
    /\ UNCHANGED <<mockDbListener, clock, messages, isTyping, calls, ai, envKey,
                   normVars, matchVars, scoreVars, parseVars, authVars>>

AddKnowledgeEntry(entry) ==
    /\ Len(getMockDB(storage)) < MaxStored
    /\ Save(addKnowledgeEntry(storage, entry, clock))

DeleteKnowledgeEntry(id) ==
    Save(deleteKnowledgeEntry(storage, id))

\* a millisecond passes
Tick ==
    /\ clock < MaxClock
    /\ clock' = clock + 1
    /\ UNCHANGED <<storage, mockDbListener, subs, normVars, matchVars, scoreVars,
                   parseVars, appVars, authVars>>

StoredIds == {getMockDB(storage)[i].id : i \in 1..Len(getMockDB(storage))}

---------------------------------------------------------------------------
(* The App: mount, auth and navigation *)

AuthUsers == {<<"asha">>, <<"ravi">>, <<"meera">>}

Roles == {"user", "admin"}

AuthIdle ==
    /\ user = Null
    /\ isGuest = FALSE
    /\ isAdmin = FALSE
    /\ activeTab = "chat"
    /\ storedUser = Null
    /\ roleKey = "none"
    /\ loginInFlight = <<"none">>
    /\ mounted = FALSE
    /\ userProfile = <<"Guest User">>

\* what the render shows: LoginPage, else the main view with ChatInterface or
\* TrainingPanel
LoginPageRendered == user = Null /\ ~isGuest

TrainingPanelRendered == ~LoginPageRendered /\ activeTab # "chat"

\* the callback handleFirebaseConnection gives subscribeToAuth, called with
\* currentUser: <<user, isAdmin, roleKey, userProfile>> afterwards; the
\* display name of a mock user is the name before the @ of the email
authCallback(currentUser, admin, role, profile) ==
    IF currentUser = Null THEN <<Null, FALSE, "none", profile>>
    ELSE <<currentUser, admin, role, currentUser>>

\* the mount effect: handleFirebaseConnection (initFirebase in mock mode,
\* subscribeToKnowledgeBase, subscribeToAuth) and the saved role
Mount ==
    /\ ~mounted
    /\ mounted' = TRUE
    /\ Subscribe(1)
    /\ LET after == authCallback(storedUser, isAdmin, roleKey, userProfile)
       IN  /\ user' = after[1]
           /\ roleKey' = after[3]
           /\ isAdmin' = IF after[3] = "admin" THEN TRUE ELSE after[2]
           /\ userProfile' = after[4]
    /\ UNCHANGED <<clock, isGuest, activeTab, storedUser, loginInFlight,
                   messages, isTyping, calls, ai, envKey,
                   normVars, matchVars, scoreVars, parseVars>>

\* LoginPage's handleSubmit up to its await of loginUser or registerUser;
\* loginInFlight is <<"none">>, <<"failed">> (the error is shown), or
\* <<"started" or "signedIn", role, user>>
LoginSubmit(role, who) ==
    /\ mounted
    /\ LoginPageRendered
    /\ loginInFlight[1] \in {"none", "failed"}
    /\ loginInFlight' = <<"started", role, who>>
    /\ UNCHANGED <<user, isGuest, isAdmin, activeTab, storedUser, roleKey, mounted, userProfile,
                   normVars, matchVars, scoreVars, parseVars, appVars, storeVars>>

\* loginUser throws ("Invalid email"); handleSubmit's catch shows the error
LoginFails ==
    /\ loginInFlight[1] = "started"
    /\ loginInFlight' = <<"failed">>
    /\ UNCHANGED <<user, isGuest, isAdmin, activeTab, storedUser, roleKey, mounted, userProfile,
                   normVars, matchVars, scoreVars, parseVars, appVars, storeVars>>

\* loginUser stores the user and calls the auth listener with it
AuthSignedIn ==
    /\ loginInFlight[1] = "started"
    /\ loginInFlight' = <<"signedIn", loginInFlight[2], loginInFlight[3]>>
    /\ storedUser' = loginInFlight[3]
    /\ LET after == authCallback(loginInFlight[3], isAdmin, roleKey, userProfile)
       IN  /\ user' = after[1]
           /\ isAdmin' = after[2]
           /\ roleKey' = after[3]
           /\ userProfile' = after[4]
    /\ UNCHANGED <<isGuest, activeTab, mounted,
                   normVars, matchVars, scoreVars, parseVars, appVars, storeVars>>

\* handleSubmit after its await: onLogin(user, role === 'admin')
HandleLoginSuccess ==
    /\ loginInFlight[1] = "signedIn"
    /\ loginInFlight' = <<"none">>
    /\ user' = loginInFlight[3]
    /\ isAdmin' = (loginInFlight[2] = "admin")
    /\ isGuest' = FALSE
    /\ roleKey' = loginInFlight[2]
    /\ activeTab' = IF loginInFlight[2] = "admin" THEN "train" ELSE "chat"
    /\ UNCHANGED <<storedUser, mounted, userProfile,
                   normVars, matchVars, scoreVars, parseVars, appVars, storeVars>>

HandleGuestAccess ==
    /\ mounted
    /\ LoginPageRendered
    /\ isGuest' = TRUE
    /\ user' = Null
    /\ isAdmin' = FALSE
    /\ activeTab' = "chat"
    /\ UNCHANGED <<storedUser, roleKey, loginInFlight, mounted, userProfile,
                   normVars, matchVars, scoreVars, parseVars, appVars, storeVars>>

\* handleLogout: logoutAdmin (the stored user removed, the auth listener
\* called with null) and what follows its await
HandleLogout ==
    /\ mounted
    /\ ~LoginPageRendered
    /\ storedUser' = Null
    /\ isGuest' = FALSE
    /\ isAdmin' = FALSE
    /\ user' = Null
    /\ roleKey' = "none"
    /\ UNCHANGED <<activeTab, loginInFlight, mounted, userProfile,
                   normVars, matchVars, scoreVars, parseVars, appVars, storeVars>>

\* the Chat button, and the Train button, which is rendered for an admin
SetActiveTab(tab) ==
    /\ mounted
    /\ ~LoginPageRendered
    /\ tab = "train" => isAdmin
    /\ activeTab' = tab
    /\ UNCHANGED <<user, isGuest, isAdmin, storedUser, roleKey, loginInFlight, mounted,
                   userProfile, normVars, matchVars, scoreVars, parseVars, appVars, storeVars>>

Init == NormIdle /\ MatchIdle /\ ScoreIdle /\ ParseIdle /\ AppInit /\ StoreIdle /\ AuthIdle

Next ==
    \/ \E data \in Snapshots : OnKnowledgeData(data)
    \/ \E apiKey \in ApiKeys, ctorOk \in BOOLEAN : InitializeGeminiClient(apiKey, ctorOk)
    \/ \E c \in DOMAIN calls, text \in Utterances, ctorOk \in BOOLEAN :
           HandleUserMessage(c, text, ctorOk)
    \/ \E c \in DOMAIN calls, ctorOk \in BOOLEAN : HandleEmotionAnalysis(c, ctorOk)
    \/ \E c \in DOMAIN calls : TimerFire(c)
    \/ \E c \in DOMAIN calls : ServiceSettle(c)

Spec == Init /\ [][Next]_vars

\* The same handlers under fairness: timers fire and, as the pipeline
\* assumes, the external call settles.  The inputs are cut to one utterance
\* that can match and one that cannot, and to the snapshots of one entry.
FairUtterances == { <<"H","i"," ","t","h","e","r","e","!">>, <<" ","TAB">> }

FairSnapshots == {k \in Snapshots : Len(k) = 1}

NextFair ==
    \/ \E data \in FairSnapshots : OnKnowledgeData(data)
    \/ \E apiKey \in ApiKeys : InitializeGeminiClient(apiKey, TRUE)
    \/ \E c \in DOMAIN calls, text \in FairUtterances, ctorOk \in BOOLEAN :
           HandleUserMessage(c, text, ctorOk)
    \/ \E c \in DOMAIN calls, ctorOk \in BOOLEAN : HandleEmotionAnalysis(c, ctorOk)
    \/ \E c \in DOMAIN calls : TimerFire(c)
    \/ \E c \in DOMAIN calls : ServiceSettle(c)

FairSpec ==
    /\ Init
    /\ [][NextFair]_vars
    /\ \A c \in CallIds : WF_vars(TimerFire(c))
    /\ \A c \in CallIds : WF_vars(ServiceSettle(c))

---------------------------------------------------------------------------
(* The pure functions on their own *)

InitNormalize ==
    /\ nText \in StringsUpTo(NormChars, MaxLen)
    /\ nOut = Null
    /\ nTwice = Null
    /\ nPc = "start"
    /\ MatchIdle
    /\ ScoreIdle
    /\ ParseIdle
    /\ AppIdle
    /\ StoreIdle
    /\ AuthIdle

NextNormalize == NormalizeOnce \/ NormalizeTwice

SpecNormalize == InitNormalize /\ [][NextNormalize]_vars

InitMatcher ==
    /\ mQuery \in StringsUpTo(MatchChars, MaxQueryLen)
    /\ mKB \in SeqsUpTo(EntryPool, MaxEntries)
    /\ mResult = Null
    /\ mPc = "start"
    /\ NormIdle
    /\ ScoreIdle
    /\ ParseIdle
    /\ AppIdle
    /\ StoreIdle
    /\ AuthIdle

NextMatcher == FindBest \/ FindBestAgain

SpecMatcher == InitMatcher /\ [][NextMatcher]_vars

InitScorer ==
    /\ sInput \in ScoreInputs
    /\ sKeywords \in SeqsUpTo(KeywordPool, MaxKeywords)
    /\ sScore = -1
    /\ sPc = "start"
    /\ NormIdle
    /\ MatchIdle
    /\ ParseIdle
    /\ AppIdle
    /\ StoreIdle
    /\ AuthIdle

NextScorer == CalculateScore

SpecScorer == InitScorer /\ [][NextScorer]_vars

InitParser ==
    /\ pText \in SeqsUpTo(ReplyTokens, MaxTokens)
    /\ pOut = Null
    /\ pPc = "start"
    /\ NormIdle
    /\ MatchIdle
    /\ ScoreIdle
    /\ AppIdle
    /\ StoreIdle
    /\ AuthIdle

NextParser == ProcessEmotionAndText

SpecParser == InitParser /\ [][NextParser]_vars

\* the mock store under any client of its API
InitStore ==
    /\ StoreIdle
    /\ NormIdle
    /\ MatchIdle
    /\ ScoreIdle
    /\ ParseIdle
    /\ AppIdle
    /\ AuthIdle

NextStore ==
    \/ \E s \in Subscriptions : SubscribeToKnowledgeBase(s)
    \/ \E s \in Subscriptions : Unsubscribe(s)
    \/ \E entry \in NewEntries : AddKnowledgeEntry(entry)
    \/ \E id \in StoredIds \cup {UnknownId} : DeleteKnowledgeEntry(id)
    \/ Tick

SpecStore == InitStore /\ [][NextStore]_vars

\* the App over the mock store: its one subscription, and TrainingPanel's
\* adds and deletes
InitKnowledge ==
    /\ StoreIdle
    /\ NormIdle
    /\ MatchIdle
    /\ ScoreIdle
    /\ ParseIdle
    /\ AppIdle
    /\ AuthIdle

NextKnowledge ==
    \/ Mount
    \/ \E entry \in NewEntries : AddKnowledgeEntry(entry)
    \/ \E id \in StoredIds : DeleteKnowledgeEntry(id)
    \/ Tick

SpecKnowledge == InitKnowledge /\ [][NextKnowledge]_vars

\* Utterances and image analyses sent while earlier ones are not answered
\* yet: the send button is disabled on empty input only.  The client is
\* configured and the knowledge base holds the welcome entry.
OverlapUtterances == { <<"H","i"," ","t","h","e","r","e","!">>, <<"n","o">> }

InitOverlap ==
    /\ knowledgeBase \in FairSnapshots
    /\ messages = <<>>
    /\ isTyping = FALSE
    /\ calls = [c \in 1..MaxInFlight |-> IdleCall]
    /\ envKey = "key"
    /\ ai = initializeGeminiClient(Null, envKey, TRUE)
    /\ NormIdle
    /\ MatchIdle
    /\ ScoreIdle
    /\ ParseIdle
    /\ StoreIdle
    /\ AuthIdle

NextOverlap ==
    \/ \E c \in DOMAIN calls, text \in OverlapUtterances : HandleUserMessage(c, text, TRUE)
    \/ \E c \in DOMAIN calls : HandleEmotionAnalysis(c, TRUE)
    \/ \E c \in DOMAIN calls : TimerFire(c)
    \/ \E c \in DOMAIN calls : ServiceSettle(c)

SpecOverlap == InitOverlap /\ [][NextOverlap]_vars

\* the App's auth and navigation, whatever localStorage held at start
InitAuth ==
    /\ user = Null
    /\ isGuest = FALSE
    /\ isAdmin = FALSE
    /\ activeTab = "chat"
    /\ storedUser \in {Null} \cup AuthUsers
    /\ roleKey \in {"none"} \cup Roles
    /\ loginInFlight = <<"none">>
    /\ mounted = FALSE
    /\ userProfile = <<"Guest User">>
    /\ StoreIdle
    /\ NormIdle
    /\ MatchIdle
    /\ ScoreIdle
    /\ ParseIdle
    /\ AppIdle

NextAuth ==
    \/ Mount
    \/ \E role \in Roles, who \in AuthUsers : LoginSubmit(role, who)
    \/ LoginFails
    \/ AuthSignedIn
    \/ HandleLoginSuccess
    \/ HandleGuestAccess
    \/ HandleLogout
    \/ \E tab \in {"chat", "train"} : SetActiveTab(tab)

SpecAuth == InitAuth /\ [][NextAuth]_vars

---------------------------------------------------------------------------
(* Properties of the handlers (Spec, FairSpec) *)

BotTexts(c) ==
    {messages[i].text : i \in {j \in 1..Len(messages) :
                                  messages[j].sender = "bot" /\ messages[j].call = c}}

BotCount(c) ==
    Cardinality({i \in 1..Len(messages) :
                    messages[i].sender = "bot" /\ messages[i].call = c})

AnyEntryScores(text, kb) ==
    \E e \in 1..Len(kb) : calculateScore(normalize(text), kb[e].keywords) > 0

\* C1: handleUserMessage calls getGeminiResponse if and only if no entry of
\* the snapshot scores above 0 against the normalized utterance.
C1_FallbackIffNoScore ==
    \A c \in DOMAIN calls :
        calls[c].kind = "text" =>
            ((calls[c].fallbackCalls > 0) <=> ~AnyEntryScores(calls[c].text, calls[c].kb))

\* C2: no handler appends a second bot message for its call or lets an
\* exception escape, and every call that has started leads to exactly one bot
\* message for it.
C2_OneBotReply ==
    /\ [](\A c \in CallIds : BotCount(c) <= 1 /\ ~calls[c].threw)
    /\ \A c \in CallIds :
           (calls[c].pc # "idle") ~> (calls[c].pc = "done" /\ BotCount(c) = 1)

C2_Witness ==
    \E c \in DOMAIN calls :
        /\ calls[c].kind = "image"
        /\ calls[c].outcome = "failed"
        /\ calls[c].pc = "done"
        /\ BotCount(c) = 1

C4_UnconfiguredDegrades ==
    \A c \in DOMAIN calls :
        (calls[c].fallbackCalls + calls[c].detectCalls > 0 /\ ~calls[c].hadClient)
            => /\ calls[c].settled = "resolved"
               /\ calls[c].raw # Null
               /\ Head(calls[c].raw) = "[SAD]"
               /\ calls[c].requests = 0

C4_Witness ==
    \E c \in DOMAIN calls :
        /\ calls[c].kind = "image"
        /\ calls[c].detectCalls = 1
        /\ ~calls[c].hadClient
        /\ envKey = ""
        /\ calls[c].pc = "done"
        /\ BotTexts(c) = { <<"need-api-key">> }

\* C5: getGeminiResponse and detectEmotion never return the empty string,
\* and on a successful call with empty or missing text they return a reply
\* that begins with [NEUTRAL].
C5_EmptyTextDefault ==
    \A c \in DOMAIN calls :
        calls[c].settled = "resolved"
            => /\ calls[c].raw # Null
               /\ calls[c].raw # <<>>
               /\ calls[c].outcome = "empty" => Head(calls[c].raw) = "[NEUTRAL]"

C5_Witness ==
    \E c \in DOMAIN calls :
        /\ calls[c].kind = "text"
        /\ calls[c].outcome = "empty"
        /\ calls[c].pc = "done"
        /\ calls[c].raw = NoResponseReply

\* C6: a call of getGeminiResponse or detectEmotion makes at most one
\* request to the external service.
C6_SingleRequest ==
    \A c \in DOMAIN calls :
        /\ calls[c].requests <= 1
        /\ calls[c].requests <= calls[c].fallbackCalls + calls[c].detectCalls

C6_Witness ==
    \E c \in DOMAIN calls :
        /\ calls[c].kind = "text"
        /\ calls[c].outcome = "failed"
        /\ calls[c].settled = "resolved"
        /\ calls[c].requests = 1

\* C7: when findBestResponse returns null for the utterance and the snapshot,
\* handleUserMessage calls getGeminiResponse exactly once and does not throw;
\* so it does for an utterance whose normalized form is empty.
C7_NullMatchFallsBackOnce ==
    \A c \in DOMAIN calls :
        calls[c].kind = "text" =>
            /\ findBestResponse(calls[c].text, calls[c].kb) = Null
                   => calls[c].fallbackCalls = 1 /\ ~calls[c].threw
            /\ normalize(calls[c].text) = <<>>
                   => calls[c].fallbackCalls = 1 /\ ~calls[c].threw

C7_Witness ==
    \E c \in DOMAIN calls :
        /\ calls[c].kind = "text"
        /\ calls[c].text # <<>>
        /\ normalize(calls[c].text) = <<>>
        /\ calls[c].kb # <<>>
        /\ calls[c].fallbackCalls = 1
        /\ calls[c].pc = "done"
        /\ BotCount(c) = 1

---------------------------------------------------------------------------
(* Properties of normalize (SpecNormalize) *)

NormalizedChars == LowerLetters \cup Digits \cup {"_", " "}

\* C8: normalize(s) holds only characters of [a-z0-9_ ], no two consecutive
\* blanks, and no blank at either end.
C8_NormalizedShape ==
    nPc # "start" =>
        /\ \A i \in 1..Len(nOut) : nOut[i] \in NormalizedChars
        /\ \A i \in 1..(Len(nOut) - 1) : ~(nOut[i] = " " /\ nOut[i + 1] = " ")
        /\ nOut # <<>> => nOut[1] # " " /\ nOut[Len(nOut)] # " "

C8_Witness ==
    /\ nPc = "once"
    /\ \E i \in 1..Len(nText) : nText[i] = "I_dot"
    /\ \E i \in 1..Len(nText) : nText[i] = "TAB"
    /\ \E i \in 1..Len(nOut) : nOut[i] = " "

\* C9: normalize(normalize(s)) = normalize(s).
C9_Idempotent == nPc = "twice" => nTwice = nOut

C9_Witness ==
    /\ nPc = "twice"
    /\ nOut # nText
    /\ Len(nOut) >= 3
    /\ nTwice = nOut

---------------------------------------------------------------------------
(* Properties of findBestResponse (SpecMatcher) *)

\* C10: a query whose normalized form is empty gets none (null), whatever
\* the keywords of the entries.
C10_EmptyQueryNoMatch ==
    (mPc = "done" /\ normalize(mQuery) = <<>>) => mResult = Null

C10_Witness ==
    /\ mPc = "done"
    /\ mQuery # <<>>
    /\ normalize(mQuery) = <<>>
    /\ \E e \in 1..Len(mKB) : \E k \in 1..Len(mKB[e].keywords) :
           normalize(mKB[e].keywords[k]) = <<>>
    /\ \E e \in 1..Len(mKB) : \E k \in 1..Len(mKB[e].keywords) :
           normalize(mKB[e].keywords[k]) # <<>>
    /\ mResult = Null

---------------------------------------------------------------------------
(* Properties of calculateScore (SpecScorer) *)

NormKeywords == [k \in 1..Len(sKeywords) |-> normalize(sKeywords[k])]

\* kw stands in s as whole words: it starts at the start of s or after a
\* blank, and ends at the end of s or before a blank
StandsAsWords(kw, s) ==
    \E i \in 1..Len(s) :
        /\ SubstringAt(s, i, kw)
        /\ (i = 1 \/ s[i - 1] = " ")
        /\ (i + Len(kw) - 1 = Len(s) \/ s[i + Len(kw)] = " ")

\* kw stands somewhere in s, as whole words or not
StandsIn(kw, s) == \E i \in 1..Len(s) : SubstringAt(s, i, kw)

\* C11: when the normalized input equals the normalized form of some keyword
\* of the entry, calculateScore returns exactly 100, whatever the other
\* keywords are and wherever the equal keyword stands in the list.
C11_ExactScores100 ==
    (sPc = "done" /\ \E k \in 1..Len(sKeywords) : NormKeywords[k] = sInput)
        => sScore = 100

\* the equal keyword comes second, after one that scores on a lower tier
C11_Witness ==
    /\ sPc = "done"
    /\ Len(sKeywords) = 2
    /\ NormKeywords[2] = sInput
    /\ NormKeywords[1] # sInput
    /\ StandsIn(NormKeywords[1], sInput)
    /\ sScore = 100

\* C12: a keyword whose normalized form stands in the normalized input as
\* whole words, without being the whole input, contributes 20 plus its
\* normalized length: that is the score of an entry of this one keyword, and
\* a lower limit of the score of any entry holding it where no keyword
\* equals the input; the score of "hi there" against the keyword "hi" is 22.
C12_BoundaryScore ==
    sPc = "done" =>
        /\ \A k \in 1..Len(sKeywords) :
               (/\ NormKeywords[k] # <<>>
                /\ NormKeywords[k] # sInput
                /\ StandsAsWords(NormKeywords[k], sInput))
               => /\ (\A j \in 1..Len(sKeywords) : NormKeywords[j] # sInput)
                         => sScore >= 20 + Len(NormKeywords[k])
                  /\ Len(sKeywords) = 1 => sScore = 20 + Len(NormKeywords[k])
        /\ (sInput = HiThere /\ sKeywords = << <<"h","i">> >>) => sScore = 22

C12_Witness ==
    /\ sPc = "done"
    /\ sInput = HiThere
    /\ sKeywords = << <<"h","i">> >>
    /\ sScore = 22

\* C13 as stated: the score of "hike up the hill" against the keyword "hi" is
\* 0, and so is the score of any single-word keyword that stands in the input
\* only inside longer words.
C13_InsideWordScoresZero ==
    (/\ sPc = "done"
     /\ Len(sKeywords) = 1
     /\ NormKeywords[1] # <<>>
     /\ ~ StandsIn(<<" ">>, NormKeywords[1])
     /\ StandsIn(NormKeywords[1], sInput)
     /\ ~ StandsAsWords(NormKeywords[1], sInput))
        => sScore = 0

\* C13, amended: a single-word keyword that stands in the input only inside
\* longer words misses the word-boundary tier and scores on the
\* plain-substring tier, 10 plus its normalized length; the score of
\* "hike up the hill" against the keyword "hi" is 12.
C13_InsideWordScoresPhrase ==
    sPc = "done" =>
        /\ (/\ Len(sKeywords) = 1
            /\ NormKeywords[1] # <<>>
            /\ ~ StandsIn(<<" ">>, NormKeywords[1])
            /\ StandsIn(NormKeywords[1], sInput)
            /\ ~ StandsAsWords(NormKeywords[1], sInput))
               => sScore = 10 + Len(NormKeywords[1])
        /\ (sInput = HikeUpTheHill /\ sKeywords = << <<"h","i">> >>) => sScore = 12

C13_Witness ==
    /\ sPc = "done"
    /\ sInput = HikeUpTheHill
    /\ sKeywords = << <<"h","i">> >>
    /\ ~ StandsAsWords(<<"h","i">>, sInput)
    /\ sScore = 12

\* C14 as stated: the score of "what is the subscription price" against the
\* keyword "price subscription" is 22 (5 + 17), reached on the
\* token-intersection tier, the keyword standing nowhere in the input.
C14_TokenTierScores22 ==
    (sPc = "done" /\ sInput = SubscriptionPrice /\ sKeywords = <<PriceSubscription>>)
        => /\ ~ StandsIn(PriceSubscription, sInput)
           /\ sScore = 22

\* C14, amended: that score is 23, 5 plus the 18 characters of
\* "price subscription", reached on the token-intersection tier: the keyword
\* stands nowhere in the input and each of its words is a word of the input.
C14_TokenTierScores23 ==
    (sPc = "done" /\ sInput = SubscriptionPrice /\ sKeywords = <<PriceSubscription>>)
        => /\ ~ StandsIn(PriceSubscription, sInput)
           /\ \A t \in Range(split(PriceSubscription)) : t \in Range(split(sInput))
           /\ Len(PriceSubscription) = 18
           /\ sScore = 5 + 18

C14_Witness ==
    /\ sPc = "done"
    /\ sInput = SubscriptionPrice
    /\ sKeywords = <<PriceSubscription>>
    /\ sScore = 23

---------------------------------------------------------------------------
(* Properties of findBestResponse (SpecMatcher), continued *)

EntryScore(e) == calculateScore(normalize(mQuery), mKB[e].keywords)

\* C15: when two or more entries share the highest score and it is above 0,
\* findBestResponse returns the response of the one that comes first in the
\* knowledge base, and a second call with the same arguments returns the
\* same response.
C15_FirstOfTiedWins ==
    /\ [] ((mPc # "start" /\ normalize(mQuery) # <<>>) =>
              \A e \in 1..Len(mKB) :
                  (/\ EntryScore(e) > 0
                   /\ \A f \in 1..Len(mKB) : EntryScore(f) <= EntryScore(e)
                   /\ \A f \in 1..(e - 1) : EntryScore(f) < EntryScore(e)
                   /\ \E f \in (e + 1)..Len(mKB) : EntryScore(f) = EntryScore(e))
                  => mResult = mKB[e].response)
    /\ [][mPc = "done" => mResult' = mResult]_vars

\* two entries of different responses tie, and the first one's is returned
C15_Witness ==
    /\ mPc = "again"
    /\ Len(mKB) = 2
    /\ EntryScore(1) > 0
    /\ EntryScore(1) = EntryScore(2)
    /\ mKB[1].response # mKB[2].response
    /\ mResult = mKB[1].response

\* C16: findBestResponse leaves its arguments as they were: the query, and
\* every entry of the knowledge base (keywords, response, topic, id,
\* matchCount) in the order given.
C16_ArgumentsUntouched == [][mKB' = mKB /\ mQuery' = mQuery]_vars

C16_Witness ==
    /\ mPc = "done"
    /\ Len(mKB) = 2
    /\ mKB[1] # mKB[2]
    /\ mResult = mKB[2].response
    /\ mResult # mKB[1].response

---------------------------------------------------------------------------
(* Properties of processEmotionAndText (SpecParser) *)

\* the tags processEmotionAndText has a branch for
RecognizedTags ==
    {"[HAPPY]", "[SAD]", "[ANGRY]", "[SURPRISED]", "[THINKING]", "[NEUTRAL]"}

\* C17: for each of the seven tags T, processEmotionAndText of T, a blank and
\* "hello" is "hello".
C17_EveryTagStripped ==
    (pPc = "done" /\ \E T \in EmotionTags : pText = <<T, " ", "hello">>)
        => pOut = <<"hello">>

\* C18: only a tag at the start of the reply is control metadata: a reply
\* that starts with a tag the function has a branch for loses that tag and
\* keeps every later tag, and any other reply comes back unchanged but for
\* trimming, tags inside it included.
C18_OnlyLeadingTag ==
    pPc = "done" =>
        IF pText # <<>> /\ Head(pText) \in RecognizedTags
        THEN pOut = trim(Tail(pText))
        ELSE pOut = trim(pText)

---------------------------------------------------------------------------
(* Properties of the handlers (Spec), continued *)

\* C19: when findBestResponse finds a match for an utterance, the bot message
\* for that utterance carries the winning entry's response as it is stored,
\* tags and blanks included, and getGeminiResponse is not called for it.
C19_MatchAnsweredVerbatim ==
    \A c \in DOMAIN calls :
        (/\ calls[c].kind = "text"
         /\ calls[c].pc = "done"
         /\ findBestResponse(calls[c].text, calls[c].kb) # Null)
            => /\ BotTexts(c) = { findBestResponse(calls[c].text, calls[c].kb) }
               /\ calls[c].fallbackCalls = 0

\* C20: handleEmotionAnalysis never asks the local matcher, calls
\* detectEmotion exactly once and getGeminiResponse never, and shows a
\* successful reply as processEmotionAndText returns it; when the external
\* call fails, either flow ends with its responder's own [SAD] reply, shown
\* without the tag, and not with a text of the handler's catch.
C20_ImageFlow ==
    /\ \A c \in DOMAIN calls :
           calls[c].kind = "image"
               => /\ calls[c].localMatch = Null
                  /\ calls[c].detectCalls = 1
                  /\ calls[c].fallbackCalls = 0
                  /\ calls[c].pc = "done"
                         => /\ BotCount(c) = 1
                            /\ calls[c].outcome \in {"text", "empty"}
                                   => BotTexts(c) = { processEmotionAndText(calls[c].raw) }
    /\ \A c \in DOMAIN calls :
           (calls[c].pc = "done" /\ calls[c].outcome = "failed")
               => /\ Head(calls[c].raw) = "[SAD]"
                  /\ BotTexts(c) = { trim(Tail(calls[c].raw)) }
                  /\ BotTexts(c) \cap (DEFAULT_RESPONSES \cup {ImageErrorText}) = {}

\* an image analysed while the knowledge base has entries, the call failing
C20_Witness ==
    \E c \in DOMAIN calls :
        /\ calls[c].kind = "image"
        /\ calls[c].pc = "done"
        /\ calls[c].kb # <<>>
        /\ calls[c].requests = 1
        /\ calls[c].outcome = "failed"
        /\ BotTexts(c) = { <<"trouble-processing-image">> }

---------------------------------------------------------------------------
(* Properties of the mock knowledge store (SpecStore, SpecKnowledge) *)

IsSortedByTopic(entries) ==
    \A i \in 1..(Len(entries) - 1) :
        localeCompare(entries[i].topic, entries[i + 1].topic) <= 0

\* C21: every snapshot the subscriber is handed, the initial one and the one
\* after any addKnowledgeEntry or deleteKnowledgeEntry, is in ascending order
\* of topic.
C21_SnapshotsSorted == IsSortedByTopic(knowledgeBase)

\* C22: once the App has subscribed, every addKnowledgeEntry and
\* deleteKnowledgeEntry calls the App's onData once, with what the store now
\* holds, so that the knowledgeBase the matcher reads equals the stored one
\* after the change.
C22_ChangeReachesMatcher ==
    [][(mounted /\ storage' # storage)
           => /\ subs'[1].status = "active"
              /\ subs'[1].called = 1
              /\ knowledgeBase' = getMockDB(storage')]_vars

\* an entry was added and one deleted, and the App holds what is stored
C22_Witness ==
    /\ mounted
    /\ subs[1].called = 1
    /\ \E i \in 1..Len(knowledgeBase) : knowledgeBase[i].id = mockId(1)
    /\ ~ \E i \in 1..Len(knowledgeBase) : knowledgeBase[i].id = "1"
    /\ knowledgeBase = getMockDB(storage)

---------------------------------------------------------------------------
(* Properties of calculateScore (SpecScorer), continued *)

\* what one keyword adds on its own: 0 when its normalized form is empty,
\* else the first tier that fires for it
Contribution(normKeyword) ==
    IF normKeyword = <<>> THEN 0
    ELSE IF StandsAsWords(normKeyword, sInput) THEN 20 + Len(normKeyword)
    ELSE IF StandsIn(normKeyword, sInput) THEN 10 + Len(normKeyword)
    ELSE IF /\ StandsIn(<<" ">>, normKeyword)
            /\ \A t \in Range(split(normKeyword)) : t \in Range(split(sInput))
         THEN 5 + Len(normKeyword)
         ELSE 0

\* C23: when no keyword of the entry equals the input, calculateScore
\* returns the greatest of the single-keyword contributions, not their sum,
\* and the same value for the keywords in reverse order.
C23_MaxNotSum ==
    (sPc = "done" /\ \A k \in 1..Len(sKeywords) : NormKeywords[k] # sInput)
        => /\ \A k \in 1..Len(sKeywords) : sScore >= Contribution(NormKeywords[k])
           /\ \/ sScore = 0
              \/ \E k \in 1..Len(sKeywords) : sScore = Contribution(NormKeywords[k])
           /\ sScore = calculateScore(sInput, Reverse(sKeywords))

\* two keywords contribute different amounts above 0 and the greater one stands last
C23_Witness ==
    /\ sPc = "done"
    /\ Len(sKeywords) = 2
    /\ Contribution(NormKeywords[1]) > 0
    /\ Contribution(NormKeywords[2]) > Contribution(NormKeywords[1])
    /\ sScore = Contribution(NormKeywords[2])
    /\ sScore < 100

\* C25: calculateScore returns 100 at most.
C25_ScoreAtMost100 == sPc = "done" => sScore <= 100

---------------------------------------------------------------------------
(* Properties of findBestResponse (SpecMatcher), continued *)

\* the keywords of an entry whose normalized form is not empty
NonEmptyKeywords(keywords) == SelectSeq(keywords, LAMBDA kw : normalize(kw) # <<>>)

\* C24: a keyword that normalizes to the empty string adds nothing to the
\* score of its entry, and an entry without a keyword of non-empty normalized
\* form scores 0 and its response is not the one findBestResponse returns.
C24_EmptyKeywordsSkipped ==
    mPc = "done" =>
        \A e \in 1..Len(mKB) :
            /\ EntryScore(e)
                   = calculateScore(normalize(mQuery), NonEmptyKeywords(mKB[e].keywords))
            /\ NonEmptyKeywords(mKB[e].keywords) = <<>>
                   => /\ EntryScore(e) = 0
                      /\ mResult # mKB[e].response

\* an entry of the single keyword "!" stands first, and a later entry answers
C24_Witness ==
    /\ mPc = "done"
    /\ Len(mKB) = 2
    /\ mKB[1].keywords = << <<"!">> >>
    /\ normalize(mQuery) # <<>>
    /\ mResult = mKB[2].response
    /\ mResult # Null

---------------------------------------------------------------------------
(* Properties of overlapping handler invocations (SpecOverlap) *)

\* the invocation has appended its user message and not yet its bot reply
Unanswered(c) == calls[c].pc \in {"timer", "awaiting"}

\* C26: isTyping is true exactly while some invocation has not had its bot
\* reply appended.
C26_TypingWhileUnanswered == isTyping = (\E c \in DOMAIN calls : Unanswered(c))

\* C27: every bot reply stands behind the user message of its own
\* invocation, and every invocation has at most one of each.
C27_UserBeforeReply ==
    \A i \in 1..Len(messages) :
        /\ messages[i].sender = "bot"
               => \E j \in 1..(i - 1) :
                      /\ messages[j].sender = "user"
                      /\ messages[j].call = messages[i].call
        /\ \A j \in 1..Len(messages) :
               (messages[j].sender = messages[i].sender /\ messages[j].call = messages[i].call)
                   => j = i

\* the reply to the second utterance stands before the reply to the first
C27_Witness ==
    /\ Len(messages) = 4
    /\ messages[1] = UserMsg(1, <<"n", "o">>)
    /\ messages[2].sender = "user" /\ messages[2].call = 2
    /\ messages[3].sender = "bot" /\ messages[3].call = 2
    /\ messages[4].sender = "bot" /\ messages[4].call = 1

---------------------------------------------------------------------------
(* Properties of the App's sign-in and navigation (SpecAuth) *)

\* C28: whenever a user is signed in or guest access is on, and the active
\* tab is the training one, isAdmin is true.
C28_TrainOnlyForAdmin ==
    ((user # Null \/ isGuest) /\ activeTab = "train") => isAdmin

---------------------------------------------------------------------------
(* Properties of the mock knowledge store (SpecStore), continued *)

\* C29: no subscription that has not been unsubscribed has missed a change
\* saved since it subscribed.
C29_ActiveSubscriptionsHearAll ==
    \A s \in Subscriptions : subs[s].status = "active" => ~subs[s].missed

\* C30: the ids of the stored entries are pairwise distinct.
C30_StoredIdsDistinct ==
    LET stored == getMockDB(storage)
    IN  \A i \in 1..Len(stored), j \in 1..Len(stored) :
            stored[i].id = stored[j].id => i = j

=============================================================================
